---- MODULE Spec2Model ----
(***************************************************************************)
(* Model of hyperform: the hook registry (components/hooks), the property  *)
(* installer (tools/property_installer), the public hyperform() entry      *)
(* point and the Wrapper (components/wrapper).                              *)
(***************************************************************************)
EXTENDS Integers, Sequences, FiniteSets, TLC

(***************************************************************************)
(* Bounds                                                                  *)
(***************************************************************************)
\* longest history of add_hook/remove_hook calls that is explored
MaxOps == 3
\* most wrappers constructed
MaxWrappers == 2
\* most catch_submit() listener pairs on the path of one event
MaxCatchers == 2

(***************************************************************************)
(* Hook registry                                                           *)
(***************************************************************************)
HookNames == {"hooks1", "hooks2"}
\* callbacks, by what they return: nothing, their argument, a value of their own
Fns == {"f_none", "f_echo", "f_over"}
Values == {"1", "2"}
Undefined == "undefined"
OverrideValue == "other"
NoCall == [hook |-> "none", value |-> Undefined, log |-> <<>>, result |-> Undefined]

VARIABLES registry, hist, lastCall

hookVars == <<registry, hist, lastCall>>

\* the value a callback returns when applied to (this, arg)
Invoke(fn, this, arg) ==
  CASE fn = "f_none" -> Undefined
    [] fn = "f_echo" -> arg
    [] OTHER -> OverrideValue

\* index of the first occurrence of fn in list, 0 when there is none
RECURSIVE IndexFrom(_, _, _)
IndexFrom(list, fn, i) ==
  IF i > Len(list) THEN 0
  ELSE IF list[i] = fn THEN i ELSE IndexFrom(list, fn, i + 1)

RemoveAt(list, i) == [k \in 1..(Len(list) - 1) |-> IF k < i THEN list[k] ELSE list[k + 1]]

add_hook_prepend(reg, name, fn) == [reg EXCEPT ![name] = <<fn>> \o @]

add_hook(reg, name, fn) == [reg EXCEPT ![name] = Append(@, fn)]

remove_hook_keep(reg, name, fn) == reg

remove_hook(reg, name, fn) ==
  LET i == IndexFrom(reg[name], fn, 1) IN
  IF i = 0 THEN reg ELSE [reg EXCEPT ![name] = RemoveAt(@, i)]

\* one callback after the other, each applied to the context {state, hook}
\* and the value; a callback that returns something overrides the result
RECURSIVE RunHooks(_, _, _, _, _, _)
RunHooks(list, i, name, state, value, acc) ==
  IF i > Len(list) THEN acc
  ELSE LET this == [state |-> state, hook |-> name]
           ret == Invoke(list[i], this, value)
           entry == [fn |-> list[i], this |-> this, arg |-> value, ret |-> ret]
           res == IF ret # Undefined THEN ret ELSE acc.result
       IN RunHooks(list, i + 1, name, state, value,
                   [acc EXCEPT !.log = Append(@, entry), !.result = res])

call_hook_chained(reg, name, value) ==
  LET RECURSIVE Chain(_, _)
      Chain(i, acc) ==
        IF i > Len(reg[name]) THEN acc
        ELSE LET this == [state |-> acc.result, hook |-> name]
                 ret == Invoke(reg[name][i], this, value)
                 entry == [fn |-> reg[name][i], this |-> this, arg |-> value, ret |-> ret]
             IN Chain(i + 1, [acc EXCEPT !.log = Append(@, entry),
                                         !.result = IF ret # Undefined THEN ret ELSE @])
  IN Chain(1, [hook |-> name, value |-> value, log |-> <<>>, result |-> value])

call_hook_undef(reg, name, value) ==
  LET r == RunHooks(reg[name], 1, name, value, value,
                    [hook |-> name, value |-> value, log |-> <<>>, result |-> Undefined])
  IN r

call_hook(reg, name, value) ==
  RunHooks(reg[name], 1, name, value, value,
           [hook |-> name, value |-> value, log |-> <<>>, result |-> value])

HookInit ==
  /\ registry = [n \in HookNames |-> <<>>]
  /\ hist = <<>>
  /\ lastCall = NoCall

AddHook ==
  \E n \in HookNames, f \in Fns :
    /\ Len(hist) < MaxOps
    /\ registry' = add_hook(registry, n, f)
    /\ hist' = Append(hist, [op |-> "add", hook |-> n, fn |-> f])
    /\ lastCall' = NoCall

RemoveHook ==
  \E n \in HookNames, f \in Fns :
    /\ Len(hist) < MaxOps
    /\ registry' = remove_hook(registry, n, f)
    /\ hist' = Append(hist, [op |-> "remove", hook |-> n, fn |-> f])
    /\ lastCall' = NoCall

CallHook ==
  \E n \in HookNames, v \in Values :
    /\ lastCall' = call_hook(registry, n, v)
    /\ UNCHANGED <<registry, hist>>

(***************************************************************************)
(* Objects and their property tables                                       *)
(***************************************************************************)
\* a property slot: no property, or a property descriptor.  val is the value
\* of a data property and what the getter of an accessor property returns;
\* by tells the page's own values from the ones the polyfill supplies
Absent == [kind |-> "absent", val |-> "undefined", by |-> "none",
           configurable |-> FALSE, writable |-> FALSE]

DataDesc(val, by, c, w) ==
  [kind |-> "data", val |-> val, by |-> by, configurable |-> c, writable |-> w]

AccessorDesc(val, by, c) ==
  [kind |-> "accessor", val |-> val, by |-> by, configurable |-> c, writable |-> FALSE]

\* descriptors a page can have before anything is installed
NativeDescs ==
  {DataDesc(v, "native", c, w) : v \in {"plain", "null", "undefined"},
                                   c \in BOOLEAN, w \in BOOLEAN}
  \cup {AccessorDesc(v, "native", c) : v \in {"plain", "null", "undefined"},
                                       c \in BOOLEAN}

\* descriptors handed to the installer; "marked" values carry the hyperform flag
PolyfillDescs ==
  {DataDesc(v, "polyfill", c, w) : v \in {"marked", "plain"},
                                     c \in BOOLEAN, w \in BOOLEAN}
  \cup {AccessorDesc(v, "polyfill", c) : v \in {"marked", "plain"}, c \in BOOLEAN}

Key(property) == <<"", property>>
OriginalKey(property) == <<"_original_", property>>

\* the element of the installer's own example and its prototype
InstallerProps == {"foo"}
KeysOf(props) == {Key(q) : q \in props} \cup {OriginalKey(q) : q \in props}

None == "none"
ProtoOf(o) ==
  CASE o = "el" -> "elProto"
    [] o = "input1" -> "HTMLInputElement.prototype"
    [] o = "button1" -> "HTMLButtonElement.prototype"
    [] o = "form1" -> "HTMLFormElement.prototype"
    [] OTHER -> None

VARIABLES dom, lastOp

domVars == <<dom, lastOp>>

NoOp == [op |-> "none", obj |-> None, property |-> "", descriptor |-> Absent,
         thrown |-> FALSE,
         before |-> [own |-> Absent, inherited |-> Absent, original |-> Absent]]

\* first slot for key k on the prototype chain of o
RECURSIVE Lookup(_, _, _)
Lookup(d, o, k) ==
  IF o = None THEN Absent
  ELSE IF k \in DOMAIN d[o] /\ d[o][k] # Absent THEN d[o][k]
  ELSE Lookup(d, ProtoOf(o), k)

\* `k in o`
HasProperty(d, o, k) == Lookup(d, o, k) # Absent

\* o[k]
Get(d, o, k) == Lookup(d, o, k).val

\* reading .hyperform of null or undefined is a TypeError
ReadThrows(v) == v \in {"null", "undefined"}
IsMarked(v) == v = "marked"

GetOwnPropertyDescriptor(d, o, k) == d[o][k]

\* Object.defineProperty(o, k, desc) with a complete descriptor; desc = Absent
\* stands for undefined, which is no descriptor
DefineProperty(d, o, k, desc) ==
  LET cur == d[o][k]
      allowed ==
        IF cur = Absent \/ cur.configurable THEN TRUE
        ELSE /\ ~ desc.configurable
             /\ desc.kind = cur.kind
             /\ IF cur.kind = "accessor"
                  THEN desc.val = cur.val /\ desc.by = cur.by
                  ELSE cur.writable \/
                       (~ desc.writable /\ desc.val = cur.val /\ desc.by = cur.by)
  IN IF desc = Absent \/ ~ allowed
       THEN [dom |-> d, thrown |-> TRUE]
       ELSE [dom |-> [d EXCEPT ![o][k] = desc], thrown |-> FALSE]

\* delete o[k] in strict mode
Delete(d, o, k) ==
  LET cur == d[o][k] IN
  IF cur # Absent /\ ~ cur.configurable
    THEN [dom |-> d, thrown |-> TRUE]
    ELSE [dom |-> [d EXCEPT ![o][k] = Absent], thrown |-> FALSE]

\* installer(property, descriptor)(element)
installer(d, property, descriptor, element) ==
  LET k == Key(property)
      exists == HasProperty(d, element, k)
      value == Get(d, element, k)
      backed == IF exists /\ ~ ReadThrows(value) /\ ~ IsMarked(value)
                  THEN DefineProperty(d, element, OriginalKey(property),
                                      GetOwnPropertyDescriptor(d, element, k))
                  ELSE [dom |-> d, thrown |-> FALSE]
      deleted == Delete(backed.dom, element, k)
  IN IF exists /\ ReadThrows(value) THEN [dom |-> d, thrown |-> TRUE]
     ELSE IF backed.thrown THEN backed
     ELSE IF deleted.thrown THEN deleted
     ELSE DefineProperty(deleted.dom, element, k, descriptor)

\* uninstall(element, property): put the backed up descriptor back
uninstall(d, element, property) ==
  LET deleted == Delete(d, element, Key(property))
      original == GetOwnPropertyDescriptor(deleted.dom, element, OriginalKey(property))
  IN IF deleted.thrown THEN deleted
     ELSE IF original # Absent
       THEN DefineProperty(deleted.dom, element, Key(property), original)
       ELSE deleted

\* what the operation found on the element before it ran
Before(d, o, property) ==
  [own |-> d[o][Key(property)],
   inherited |-> Lookup(d, ProtoOf(o), Key(property)),
   original |-> d[o][OriginalKey(property)]]

\* the element and its prototype, with foo as the page defines it
Page(own, inh) ==
  [o \in {"el", "elProto"} |->
     [k \in KeysOf(InstallerProps) |->
        IF k = Key("foo") THEN (IF o = "el" THEN own ELSE inh) ELSE Absent]]

DomInit ==
  /\ dom = Page(Absent, Absent)
  /\ lastOp = NoOp

InstallerInit ==
  /\ \E own \in NativeDescs \cup {Absent}, inh \in NativeDescs \cup {Absent} :
       dom = Page(own, inh)
  /\ lastOp = NoOp

ApplyInstaller ==
  \E property \in InstallerProps, descriptor \in PolyfillDescs :
    LET r == installer(dom, property, descriptor, "el") IN
    /\ dom' = r.dom
    /\ lastOp' = [op |-> "install", obj |-> "el", property |-> property,
                  descriptor |-> descriptor, thrown |-> r.thrown,
                  before |-> Before(dom, "el", property)]

ApplyUninstaller ==
  \E property \in InstallerProps :
    LET r == uninstall(dom, "el", property) IN
    /\ dom' = r.dom
    /\ lastOp' = [op |-> "uninstall", obj |-> "el", property |-> property,
                  descriptor |-> Absent, thrown |-> r.thrown,
                  before |-> Before(dom, "el", property)]

(***************************************************************************)
(* The page: nodes, form controls and the interface prototypes             *)
(***************************************************************************)
\* what hyperform() and new Wrapper() are called for
Nodes == {"window", "document", "form1", "fieldset1", "div1"}

NodeKind(n) ==
  CASE n \in {"window", "document"} -> "document"
    [] n = "form1" -> "form"
    [] n = "fieldset1" -> "fieldset"
    [] OTHER -> "other"

\* form.elements
ElementsOf(n) ==
  CASE n = "form1" -> <<"input1", "button1">>
    [] n = "fieldset1" -> <<"input1">>
    [] OTHER -> <<>>

\* the prototypes a document-wide wrapper installs on
Prototypes == <<"HTMLButtonElement.prototype", "HTMLInputElement.prototype",
                "HTMLSelectElement.prototype", "HTMLTextAreaElement.prototype",
                "HTMLFieldSetElement.prototype">>

FormInterface == "HTMLFormElement"

PageObjects == {"input1", "button1", "form1", "HTMLFormElement.prototype", FormInterface}
               \cup {Prototypes[i] : i \in 1..Len(Prototypes)}

\* the properties Wrapper.install() polyfills, in its order
PolyfillProps == <<"checkValidity", "reportValidity", "setCustomValidity",
                   "stepDown", "stepUp", "validationMessage", "validity",
                   "valueAsDate", "valueAsNumber", "willValidate">>

\* the properties Wrapper.uninstall() restores, in its order
UninstallProps == <<"checkValidity", "reportValidity", "setCustomValidity",
                    "stepDown", "stepUp", "validationMessage", "validity",
                    "valueAsDate", "valueAsNumber", "willValidate">>

\* the properties install_form() polyfills on a form
FormProps == <<"checkValidity", "reportValidity">>

\* the property getters install_properties() replaces
GetterProps == <<"required">>

Range(seq) == {seq[i] : i \in 1..Len(seq)}

PageProps == Range(PolyfillProps) \cup Range(GetterProps)

Methods == {"checkValidity", "reportValidity", "setCustomValidity", "stepDown", "stepUp"}

\* a browser with the constraint validation API ("modern") has it on the
\* interface prototypes; one without ("legacy") has none of the properties
Browsers == {"legacy", "modern"}

NativeSlot(browser, o, property) ==
  LET common == {"checkValidity", "reportValidity", "setCustomValidity",
                 "validationMessage", "validity", "willValidate"}
      has == CASE o = "HTMLInputElement.prototype" -> TRUE
               [] o = "HTMLFormElement.prototype" -> property \in Range(FormProps)
               [] o \in Range(Prototypes) -> property \in common
               [] OTHER -> FALSE
  IN IF browser = "legacy" \/ ~ has THEN Absent
     ELSE IF property \in Methods THEN DataDesc("plain", "native", TRUE, TRUE)
     ELSE IF property = "valueAsDate" THEN AccessorDesc("null", "native", TRUE)
     ELSE AccessorDesc("plain", "native", TRUE)

BrowserPage(browser) ==
  [o \in PageObjects |->
     [k \in KeysOf(PageProps) |->
        IF k[1] = "" THEN NativeSlot(browser, o, k[2]) ELSE Absent]]

\* the descriptor a polyfill module hands to the installer
PolyfillDescriptor(property) ==
  IF property \in Methods
    THEN DataDesc("marked", "polyfill", TRUE, TRUE)
    ELSE AccessorDesc("marked", "polyfill", TRUE)

(***************************************************************************)
(* Wrapper                                                                 *)
(***************************************************************************)
Modes == {"oninput", "onblur", "onsubmit", "hybrid", "never"}

VARIABLES wrappers, instances, listeners, caught, pair

wrapperVars == <<wrappers, instances, listeners, caught, pair>>

\* the program state the Wrapper methods work on
World == [dom |-> dom, wrappers |-> wrappers, instances |-> instances,
          listeners |-> listeners, caught |-> caught, thrown |-> FALSE]

\* apply the installers of the listed <<element, property>> steps in turn;
\* an exception ends the run
RECURSIVE InstallSteps(_, _, _)
InstallSteps(d, steps, i) ==
  IF i > Len(steps) THEN [dom |-> d, thrown |-> FALSE]
  ELSE LET r == installer(d, steps[i][2], PolyfillDescriptor(steps[i][2]), steps[i][1])
       IN IF r.thrown THEN r ELSE InstallSteps(r.dom, steps, i + 1)

RECURSIVE UninstallSteps(_, _, _)
UninstallSteps(d, steps, i) ==
  IF i > Len(steps) THEN [dom |-> d, thrown |-> FALSE]
  ELSE LET r == uninstall(d, steps[i][1], steps[i][2])
       IN IF r.thrown THEN r ELSE UninstallSteps(r.dom, steps, i + 1)

\* <<element, property>> for every element of els and every property of props
RECURSIVE StepsFor(_, _)
StepsFor(els, props) ==
  IF els = <<>> THEN <<>>
  ELSE [i \in 1..Len(props) |-> <<Head(els), props[i]>>] \o StepsFor(Tail(els), props)

\* install_properties(element)
install_properties_steps(els) == StepsFor(els, GetterProps)

\* Wrapper.install(els): per element the ten polyfills, then install_properties
RECURSIVE install_steps(_)
install_steps(els) ==
  IF els = <<>> THEN <<>>
  ELSE StepsFor(<<Head(els)>>, PolyfillProps)
       \o install_properties_steps(<<Head(els)>>)
       \o install_steps(Tail(els))

install(d, els) == InstallSteps(d, install_steps(els), 1)

\* Wrapper.install_form(form)
install_form(d, form) == InstallSteps(d, StepsFor(<<form>>, FormProps), 1)

\* Wrapper.uninstall(els)
uninstall_all(d, els) == UninstallSteps(d, StepsFor(els, UninstallProps), 1)

\* catch_submit(node): one more click and one more keypress listener
catch_submit(c, node) == [c EXCEPT ![node] = @ + 1]

\* uncatch_submit(node)
uncatch_submit(c, node) == [c EXCEPT ![node] = 0]

Listener(node, type, wid, capture) ==
  [node |-> node, type |-> type, wid |-> wid, capture |-> capture]

\* the listeners the constructor attaches for a revalidate mode
attach(ls, form, wid, mode) ==
  ls \cup (IF mode \in {"oninput", "hybrid"}
             THEN {Listener(form, "keyup", wid, FALSE), Listener(form, "change", wid, FALSE)}
             ELSE {})
     \cup (IF mode \in {"onblur", "hybrid"}
             THEN {Listener(form, "blur", wid, TRUE)}
             ELSE {})

\* the install part of the constructor
construct_install(d, form) ==
  IF NodeKind(form) = "document"
    THEN LET r == install(d, Prototypes)
         IN IF r.thrown THEN r ELSE install_form(r.dom, FormInterface)
  ELSE IF NodeKind(form) \in {"form", "fieldset"}
    THEN LET r == install(d, ElementsOf(form))
         IN IF r.thrown \/ NodeKind(form) # "form" THEN r ELSE install_form(r.dom, form)
  ELSE [dom |-> d, thrown |-> FALSE]

\* new Wrapper(form, settings), inst being what its install calls do
construct_with(w, form, settings, inst) ==
  LET wid == Len(w.wrappers) + 1
      this == [form |-> form, settings |-> settings,
               constructed |-> ~ inst.thrown, destroyed |-> FALSE]
  IN [dom |-> inst.dom,
      wrappers |-> Append(w.wrappers, this),
      instances |-> [w.instances EXCEPT ![form] = wid],
      listeners |-> IF inst.thrown THEN w.listeners
                    ELSE attach(w.listeners, form, wid, settings.revalidate),
      caught |-> catch_submit(w.caught, form),
      thrown |-> inst.thrown]

construct(w, form, settings) ==
  construct_with(w, form, settings, construct_install(w.dom, form))

\* the uninstall part of destroy()
destroy_uninstall(d, form) ==
  IF NodeKind(form) = "document"
    THEN LET r == uninstall_all(d, Prototypes)
         IN IF r.thrown THEN r
            ELSE UninstallSteps(r.dom, StepsFor(<<FormInterface>>, FormProps), 1)
  ELSE IF NodeKind(form) \in {"form", "fieldset"}
    THEN LET r == uninstall_all(d, ElementsOf(form))
         IN IF r.thrown \/ NodeKind(form) # "form" THEN r
            ELSE UninstallSteps(r.dom, StepsFor(<<form>>, FormProps), 1)
  ELSE [dom |-> d, thrown |-> FALSE]

\* destroy() removing the blur listener without useCapture
destroy_no_capture(w, wid) ==
  LET form == w.wrappers[wid].form
      un == destroy_uninstall(w.dom, form)
  IN [dom |-> un.dom,
      wrappers |-> [w.wrappers EXCEPT ![wid].destroyed = TRUE],
      instances |-> [w.instances EXCEPT ![form] = 0],
      listeners |-> w.listeners \ {Listener(form, "keyup", wid, FALSE),
                                   Listener(form, "change", wid, FALSE),
                                   Listener(form, "blur", wid, FALSE)},
      caught |-> uncatch_submit(w.caught, form),
      thrown |-> un.thrown]

\* wrapper.destroy()
destroy(w, wid) ==
  LET form == w.wrappers[wid].form
      un == destroy_uninstall(w.dom, form)
  IN [dom |-> un.dom,
      wrappers |-> [w.wrappers EXCEPT ![wid].destroyed = TRUE],
      instances |-> [w.instances EXCEPT ![form] = 0],
      listeners |-> w.listeners \ {Listener(form, "keyup", wid, FALSE),
                                   Listener(form, "change", wid, FALSE),
                                   Listener(form, "blur", wid, TRUE)},
      caught |-> uncatch_submit(w.caught, form),
      thrown |-> un.thrown]

(***************************************************************************)
(* hyperform(form, options)                                                *)
(***************************************************************************)
OptionNames == {"strict", "revalidate", "valid_event", "extend_fieldset",
                "novalidate_on_elements", "classes"}

\* classes as the caller can give it: null, or an object with class names
ClassesGiven == {"null", "custom"}
EmptyClasses == "{}"

\* an options object: given holds the names of the options that are present,
\* the field of an option that is absent is a placeholder nothing reads
Placeholder == [strict |-> FALSE, revalidate |-> "never", valid_event |-> FALSE,
                extend_fieldset |-> FALSE, novalidate_on_elements |-> FALSE,
                classes |-> "null"]

OptionsSet ==
  {o \in [given : SUBSET OptionNames, strict : BOOLEAN, revalidate : Modes,
          valid_event : BOOLEAN, extend_fieldset : BOOLEAN,
          novalidate_on_elements : BOOLEAN, classes : ClassesGiven] :
     \A n \in OptionNames \ o.given : o[n] = Placeholder[n]}

\* the parameters after the defaults are filled in
resolve_falsy(o) ==
  LET strict == IF "strict" \in o.given THEN o.strict ELSE FALSE IN
  [strict |-> strict,
   revalidate |-> IF "revalidate" \in o.given THEN o.revalidate
                  ELSE IF strict THEN "onsubmit" ELSE "hybrid",
   valid_event |-> IF "valid_event" \in o.given /\ o.valid_event
                     THEN o.valid_event ELSE ~ strict,
   extend_fieldset |-> IF "extend_fieldset" \in o.given THEN o.extend_fieldset
                       ELSE ~ strict,
   novalidate_on_elements |-> IF "novalidate_on_elements" \in o.given
                                THEN o.novalidate_on_elements ELSE ~ strict,
   classes |-> IF "classes" \in o.given /\ o.classes # "null"
                 THEN o.classes ELSE EmptyClasses]

resolve(o) ==
  LET strict == IF "strict" \in o.given THEN o.strict ELSE FALSE IN
  [strict |-> strict,
   revalidate |-> IF "revalidate" \in o.given THEN o.revalidate
                  ELSE IF strict THEN "onsubmit" ELSE "hybrid",
   valid_event |-> IF "valid_event" \in o.given THEN o.valid_event ELSE ~ strict,
   extend_fieldset |-> IF "extend_fieldset" \in o.given THEN o.extend_fieldset
                       ELSE ~ strict,
   novalidate_on_elements |-> IF "novalidate_on_elements" \in o.given
                                THEN o.novalidate_on_elements ELSE ~ strict,
   classes |-> IF "classes" \in o.given /\ o.classes # "null"
                 THEN o.classes ELSE EmptyClasses]

\* const settings = { strict, revalidate, valid_event, extend_fieldset, classes, }
make_settings(locals) ==
  [strict |-> locals.strict, revalidate |-> locals.revalidate,
   valid_event |-> locals.valid_event, extend_fieldset |-> locals.extend_fieldset,
   classes |-> locals.classes]

\* a settings object passed on as the options of the call for one element
as_options(settings) ==
  [given |-> DOMAIN settings, strict |-> settings.strict,
   revalidate |-> settings.revalidate, valid_event |-> settings.valid_event,
   extend_fieldset |-> settings.extend_fieldset,
   novalidate_on_elements |-> Placeholder.novalidate_on_elements,
   classes |-> settings.classes]

\* hyperform(element, settings) for the elements of a collection, in order
RECURSIVE map_elements(_, _, _)
map_elements(w, nodes, settings) ==
  IF nodes = <<>> \/ w.thrown THEN w
  ELSE map_elements(construct(w, Head(nodes), make_settings(resolve(as_options(settings)))),
                    Tail(nodes), settings)

\* what hyperform() is called for: one node, or a collection of nodes
Targets ==
  {[collection |-> FALSE, nodes |-> <<n>>] : n \in Nodes}
  \cup {[collection |-> TRUE, nodes |-> ns] :
          ns \in {<<>>, <<"div1", "form1">>, <<"form1", "fieldset1">>}}

hyperform(w, target, options) ==
  LET settings == make_settings(resolve(options)) IN
  IF target.collection
    THEN map_elements(w, target.nodes, settings)
    ELSE construct(w, target.nodes[1], settings)

VARIABLES call

NoCallYet == [done |-> FALSE, target |-> [collection |-> TRUE, nodes |-> <<>>],
              options |-> [Placeholder EXCEPT !.classes = "null"] @@ [given |-> {}],
              locals |-> resolve(Placeholder @@ [given |-> {}]),
              thrown |-> FALSE]

(***************************************************************************)
(* Wrapper.revalidate(event)                                               *)
(***************************************************************************)
\* the events the revalidator is bound to, and one it is not bound to
EventTypes == {"keyup", "change", "blur", "input"}

\* what event.target is an instance of
TargetKinds == {"button", "textarea", "select", "input", "form", "div"}

Revalidated == {"button", "textarea", "select", "input"}

\* an event as revalidate() reads it: its type, its target, whether
\* target.validity.valid holds and whether target.value differs from
\* target.defaultValue
Events == [type : EventTypes, target : TargetKinds, valid : BOOLEAN, changed : BOOLEAN]

VARIABLES reval, submission, got

eventVars == <<reval, submission, got>>

NoReval == [mode |-> "none",
            event |-> [type |-> "none", target |-> "none", valid |-> FALSE,
                       changed |-> FALSE],
            reports |-> 0]

\* the number of reportValidity(event.target) calls of one revalidate(event)
revalidate_blur_only(mode, event) ==
  IF event.target \in Revalidated
    THEN IF mode = "hybrid"
           THEN IF event.type = "blur" /\ event.changed
                  THEN 1
                  ELSE IF event.type \in {"keyup", "change"}
                         THEN (IF event.valid THEN 1 ELSE 0)
                         ELSE 0
           ELSE 1
    ELSE 0

revalidate(mode, event) ==
  IF event.target \in Revalidated
    THEN IF mode = "hybrid"
           THEN IF (event.type = "blur" /\ event.changed) \/ event.valid
                  THEN 1
                  ELSE IF event.type \in {"keyup", "change"}
                         THEN (IF event.valid THEN 1 ELSE 0)
                         ELSE 0
           ELSE 1
    ELSE 0

(***************************************************************************)
(* catch_submit: the click and keypress listeners                          *)
(***************************************************************************)
Control(nodeName, type, formnovalidate, disabled) ==
  [nodeName |-> nodeName, type |-> type, formnovalidate |-> formnovalidate,
   disabled |-> disabled]

TextInput == Control("INPUT", "text", FALSE, FALSE)
Checkbox == Control("INPUT", "checkbox", FALSE, FALSE)
Textarea == Control("TEXTAREA", "textarea", FALSE, FALSE)

\* input types that count as text (components/types)
text_types == {"text", "search", "tel", "password", "url", "email"}

\* form.elements of the forms an event is tried on
FormLayouts ==
  {<<TextInput>>, <<TextInput, Checkbox, Textarea>>}
  \cup {<<TextInput, Control("BUTTON", "submit", f, d)>> : f \in BOOLEAN, d \in BOOLEAN}
  \cup {<<Control("INPUT", "image", f, d), TextInput, Control("BUTTON", "submit", FALSE, FALSE)>> :
          f \in BOOLEAN, d \in BOOLEAN}

KeyCodes == {13, 65}

\* the running tally of one user event: whether the event now being
\* dispatched is default-prevented, the calls made so far, whether a
\* listener took the event, and the forms the browser submits by default
Tally(prevented) ==
  [prevented |-> prevented, reports |-> 0, submits |-> 0, intercepted |-> FALSE,
   clicks |-> 0, native |-> 0]

\* check(event) without the test of reportValidity's result
check_always_submit(t, valid) ==
  [t EXCEPT !.prevented = TRUE, !.intercepted = TRUE, !.reports = @ + 1,
            !.submits = @ + 1]

\* check(event)
check(t, valid) ==
  [t EXCEPT !.prevented = TRUE, !.intercepted = TRUE, !.reports = @ + 1,
            !.submits = IF valid THEN @ + 1 ELSE @]

\* the click listener on an event whose target is the control (hasForm:
\* target.form is set)
click_listener(t, target, hasForm, env) ==
  IF /\ ~ t.prevented
     /\ target.nodeName \in {"INPUT", "BUTTON"}
     /\ target.type \in {"image", "submit"}
     /\ ~ target.formnovalidate
     /\ hasForm
     /\ ~ env.novalidate
    THEN check(t, env.valid)
    ELSE t

\* the n click listeners on the path of the event, one after the other
RECURSIVE click_listeners(_, _, _, _, _)
click_listeners(n, t, target, hasForm, env) ==
  IF n = 0 THEN t
  ELSE click_listeners(n - 1, click_listener(t, target, hasForm, env), target, hasForm, env)

\* a click on a control: the listeners, then the default action of a submit
\* button whose click was not prevented
dispatch_click(t, target, hasForm, env) ==
  LET after == click_listeners(env.catchers, t, target, hasForm, env)
      submits == /\ ~ after.prevented
                 /\ hasForm
                 /\ target.nodeName \in {"INPUT", "BUTTON"}
                 /\ target.type \in {"image", "submit"}
  IN [after EXCEPT !.native = IF submits THEN @ + 1 ELSE @]

\* submit.click(): a fresh click event, unless the control is disabled
click(t, control, env) ==
  IF control.disabled THEN t
  ELSE LET inner == dispatch_click([t EXCEPT !.prevented = FALSE, !.clicks = @ + 1],
                                   control, TRUE, env)
       IN [inner EXCEPT !.prevented = t.prevented]

\* the loop without its break: the last element of type image or submit
RECURSIVE last_submit(_, _)
last_submit(elements, i) ==
  IF i > Len(elements) THEN 0
  ELSE LET later == last_submit(elements, i + 1) IN
       IF later # 0 THEN later
       ELSE IF elements[i].type \in {"image", "submit"} THEN i ELSE 0

\* index of the first element of type image or submit, 0 when there is none
RECURSIVE first_submit(_, _)
first_submit(elements, i) ==
  IF i > Len(elements) THEN 0
  ELSE IF elements[i].type \in {"image", "submit"} THEN i
  ELSE first_submit(elements, i + 1)

\* the keypress listener
keypress_listener(t, keyCode, target, hasForm, env) ==
  IF /\ ~ t.prevented
     /\ keyCode = 13
     /\ target.nodeName = "INPUT"
     /\ target.type \in text_types
     /\ hasForm
     /\ ~ env.novalidate
    THEN LET i == first_submit(env.elements, 1) IN
         IF i # 0
           THEN click([t EXCEPT !.prevented = TRUE, !.intercepted = TRUE],
                      env.elements[i], env)
           ELSE check(t, env.valid)
    ELSE t

RECURSIVE keypress_listeners(_, _, _, _, _, _)
keypress_listeners(n, t, keyCode, target, hasForm, env) ==
  IF n = 0 THEN t
  ELSE keypress_listeners(n - 1, keypress_listener(t, keyCode, target, hasForm, env),
                          keyCode, target, hasForm, env)

\* the page an event happens on: the form of the target (its novalidate
\* attribute, its elements, what reportValidity(form) returns) and the
\* number of catch_submit() listener pairs on the path of the event
Environments ==
  [novalidate : BOOLEAN, elements : FormLayouts, valid : BOOLEAN,
   catchers : 0..MaxCatchers]

\* target 0 is a text input outside of any form, target i the i-th element
UserEvents ==
  [type : {"click", "keypress"}, keyCode : KeyCodes, prevented : BOOLEAN, target : 0..3]

TargetOf(event, env) ==
  IF event.target = 0 THEN TextInput ELSE env.elements[event.target]

dispatch(event, env) ==
  LET target == TargetOf(event, env)
      hasForm == event.target # 0
  IN IF event.type = "click"
       THEN dispatch_click(Tally(event.prevented), target, hasForm, env)
       ELSE keypress_listeners(env.catchers, Tally(event.prevented), event.keyCode,
                               target, hasForm, env)

NoSubmission ==
  [done |-> FALSE,
   env |-> [novalidate |-> FALSE, elements |-> <<TextInput>>, valid |-> FALSE, catchers |-> 0],
   event |-> [type |-> "click", keyCode |-> 65, prevented |-> FALSE, target |-> 0],
   tally |-> Tally(FALSE)]

(***************************************************************************)
(* get_wrapper(element)                                                    *)
(***************************************************************************)
\* what get_wrapper() is asked for: the nodes and the form controls
Lookups == Nodes \cup {"input1", "button1"}

\* element.form
FormOf(e) ==
  CASE e \in {"input1", "button1", "fieldset1"} -> "form1"
    [] OTHER -> None

\* element.parentNode
ParentOf(e) ==
  CASE e = "input1" -> "fieldset1"
    [] e = "button1" -> "form1"
    [] e = "fieldset1" -> "form1"
    [] e = "form1" -> "div1"
    [] e = "div1" -> "document"
    [] OTHER -> None

\* instances.get(key): the wrapper registered for key, 0 for undefined
InstancesGet(inst, key) == IF key \in DOMAIN inst THEN inst[key] ELSE 0

\* the while loop: [wrapped, steps] once it ends
RECURSIVE walk_up(_, _, _, _)
walk_up(inst, wrapped, element, steps) ==
  IF wrapped = 0 /\ element # None
    THEN walk_up(inst, InstancesGet(inst, element), ParentOf(element), steps + 1)
    ELSE [wrapped |-> wrapped, steps |-> steps]

\* the walk starting at the parent instead of the element itself
get_wrapper_from_parent(inst, element) ==
  LET shortcut == IF FormOf(element) # None THEN InstancesGet(inst, FormOf(element)) ELSE 0
      walked == walk_up(inst, shortcut, ParentOf(element), 0)
  IN [wrapped |-> IF walked.wrapped = 0 THEN InstancesGet(inst, "window")
                  ELSE walked.wrapped,
      steps |-> walked.steps]

get_wrapper(inst, element) ==
  LET shortcut == IF FormOf(element) # None THEN InstancesGet(inst, FormOf(element)) ELSE 0
      walked == walk_up(inst, shortcut, element, 0)
  IN [wrapped |-> IF walked.wrapped = 0 THEN InstancesGet(inst, "window")
                  ELSE walked.wrapped,
      steps |-> walked.steps]

NoLookup == [element |-> None, wrapped |-> 0, steps |-> 0]

EventInit ==
  /\ reval = NoReval
  /\ submission = NoSubmission
  /\ got = NoLookup

\* get_wrapper(element)
GetWrapper ==
  \E element \in Lookups :
    \E r \in {get_wrapper(instances, element)} :
      /\ got' = [element |-> element, wrapped |-> r.wrapped, steps |-> r.steps]
      /\ UNCHANGED <<hookVars, domVars, wrapperVars, call, reval, submission>>


\* a click or keypress of the user on a page with catch_submit() listeners
UserEvent ==
  /\ ~ submission.done
  /\ \E env \in Environments, event \in UserEvents :
    /\ event.target <= Len(env.elements)
    /\ (event.target # 0 /\ event.type = "click") => ~ env.elements[event.target].disabled
    /\ submission' = [done |-> TRUE, env |-> env, event |-> event,
                      tally |-> dispatch(event, env)]
    /\ UNCHANGED <<hookVars, domVars, wrapperVars, call, reval, got>>


\* wrapper.revalidate(event) of a wrapper with the given mode
Revalidate ==
  \E mode \in Modes, event \in Events :
    /\ reval' = [mode |-> mode, event |-> event, reports |-> revalidate(mode, event)]
    /\ UNCHANGED <<hookVars, domVars, wrapperVars, call, submission, got>>

vars == <<registry, hist, lastCall, dom, lastOp, wrappers, instances, listeners,
          caught, pair, call, reval, submission, got>>

NoPair == [phase |-> "none", els |-> <<>>, wid |-> 0, before |-> <<>>]

WrapperInit ==
  /\ wrappers = <<>>
  /\ instances = [n \in Nodes |-> 0]
  /\ listeners = {}
  /\ caught = [n \in Nodes |-> 0]
  /\ pair = NoPair
  /\ call = NoCallYet

Init == HookInit /\ EventInit /\ DomInit /\ WrapperInit

NextHooks ==
  \/ AddHook /\ UNCHANGED <<eventVars, domVars, wrapperVars, call>>
  \/ RemoveHook /\ UNCHANGED <<eventVars, domVars, wrapperVars, call>>
  \/ CallHook /\ UNCHANGED <<eventVars, domVars, wrapperVars, call>>

SpecHooks == Init /\ [][NextHooks]_vars

NextInstaller ==
  \/ ApplyInstaller /\ UNCHANGED <<eventVars, hookVars, wrapperVars, call>>
  \/ ApplyUninstaller /\ UNCHANGED <<eventVars, hookVars, wrapperVars, call>>

InitInstaller == HookInit /\ EventInit /\ InstallerInit /\ WrapperInit

SpecInstaller == InitInstaller /\ [][NextInstaller]_vars

\* the page as the browser presents it before hyperform touches it
PageInit ==
  /\ \E b \in Browsers : dom = BrowserPage(b)
  /\ lastOp = NoOp

Commit(w) ==
  /\ dom' = w.dom
  /\ wrappers' = w.wrappers
  /\ instances' = w.instances
  /\ listeners' = w.listeners
  /\ caught' = w.caught

Hyperform ==
  /\ ~ call.done
  /\ \E target \in Targets, options \in OptionsSet :
       \E w \in {hyperform(World, target, options)} :
         /\ Commit(w)
         /\ call' = [done |-> TRUE, target |-> target, options |-> options,
                     locals |-> resolve(options), thrown |-> w.thrown]
         /\ UNCHANGED <<eventVars, hookVars, lastOp, pair>>

NextHyperform == Hyperform

InitHyperform == HookInit /\ EventInit /\ PageInit /\ WrapperInit

SpecHyperform == InitHyperform /\ [][NextHyperform]_vars

\* settings as hyperform() builds them when only revalidate is given
WrapperSettings == {make_settings(resolve([Placeholder EXCEPT !.revalidate = m]
                                          @@ [given |-> {"revalidate"}])) : m \in Modes}

\* new Wrapper(form, settings)
Construct ==
  /\ Len(wrappers) < MaxWrappers
  /\ \E form \in Nodes :
       \E inst \in {construct_install(dom, form)} :
         \E settings \in WrapperSettings :
           /\ Commit(construct_with(World, form, settings, inst))
           /\ UNCHANGED <<eventVars, hookVars, lastOp, call, pair>>

\* hyperform(form), all options left to their defaults
HyperformDefault ==
  /\ Len(wrappers) < MaxWrappers
  /\ \E form \in Nodes :
       \E w \in {hyperform(World, [collection |-> FALSE, nodes |-> <<form>>],
                           Placeholder @@ [given |-> {}])} :
         /\ Commit(w)
         /\ pair' = [phase |-> "constructed", els |-> <<>>, wid |-> Len(w.wrappers),
                     before |-> dom]
         /\ UNCHANGED <<eventVars, hookVars, lastOp, call>>

\* wrapper.destroy(), called once on a wrapper
Destroy ==
  \E wid \in {i \in 1..Len(wrappers) : ~ wrappers[i].destroyed} :
    \E w \in {destroy(World, wid)} :
      /\ Commit(w)
      /\ pair' = IF pair.phase = "constructed" /\ pair.wid = wid
                   THEN [pair EXCEPT !.phase = "destroyed"] ELSE NoPair
      /\ UNCHANGED <<eventVars, hookVars, lastOp, call>>

\* the elements a page passes to wrapper.install() and wrapper.uninstall()
ElementLists == {<<"input1">>, <<"input1", "button1">>}

\* wrapper.install(els)
WrapperInstall ==
  \E wid \in 1..Len(wrappers), els \in ElementLists :
    /\ dom' = install(dom, els).dom
    /\ pair' = [phase |-> "installed", els |-> els, wid |-> wid, before |-> dom]
    /\ UNCHANGED <<eventVars, hookVars, lastOp, call, wrappers, instances, listeners, caught>>

\* wrapper.uninstall(els)
WrapperUninstall ==
  \E wid \in 1..Len(wrappers), els \in ElementLists :
    /\ dom' = uninstall_all(dom, els).dom
    /\ pair' = IF pair.phase = "installed" /\ pair.els = els /\ pair.wid = wid
                 THEN [pair EXCEPT !.phase = "uninstalled"] ELSE NoPair
    /\ UNCHANGED <<eventVars, hookVars, lastOp, call, wrappers, instances, listeners, caught>>

NextWrapper == Construct \/ Destroy

InitWrapper == HookInit /\ EventInit /\ PageInit /\ WrapperInit

NextInstall == HyperformDefault \/ Destroy \/ WrapperInstall \/ WrapperUninstall

SpecInstall == InitWrapper /\ [][NextInstall]_vars

SpecWrapper == InitWrapper /\ [][NextWrapper]_vars

NextRevalidate == Revalidate

SpecRevalidate == Init /\ [][NextRevalidate]_vars

\* wrappers come and go by hyperform(form) and destroy(), then the registry
\* is looked at
NextLookup ==
  \/ GetWrapper
  \/ got = NoLookup /\ HyperformDefault
  \/ got = NoLookup /\ Destroy

SpecLookup == InitWrapper /\ [][NextLookup]_vars

NextSubmit == UserEvent

SpecSubmit == Init /\ [][NextSubmit]_vars

(***************************************************************************)
(* Properties of the hook registry                                         *)
(***************************************************************************)
\* registrations of fn under name that the history leaves standing: every
\* add_hook makes one, every remove_hook takes one away when there is any
RECURSIVE LiveCount(_, _, _)
LiveCount(h, name, fn) ==
  IF h = <<>> THEN 0
  ELSE LET prev == LiveCount(SubSeq(h, 1, Len(h) - 1), name, fn)
           last == h[Len(h)]
       IN IF last.hook # name \/ last.fn # fn THEN prev
          ELSE IF last.op = "add" THEN prev + 1
          ELSE IF prev > 0 THEN prev - 1 ELSE 0

\* how often fn was invoked by the call the log belongs to
Invocations(log, fn) == Cardinality({i \in 1..Len(log) : log[i].fn = fn})

\* the callbacks added under name, in the order of the add_hook calls
AddedOrder(h, name) ==
  LET idx == SelectSeq([i \in 1..Len(h) |-> i],
                       LAMBDA i : h[i].op = "add" /\ h[i].hook = name)
  IN [k \in 1..Len(idx) |-> h[idx[k]].fn]

RECURSIVE IsSubsequence(_, _)
IsSubsequence(s, t) ==
  IF s = <<>> THEN TRUE
  ELSE IF t = <<>> THEN FALSE
  ELSE IF Head(s) = Head(t) THEN IsSubsequence(Tail(s), Tail(t))
  ELSE IsSubsequence(s, Tail(t))

Called == lastCall # NoCall

\* C1: call_hook(name, value) invokes exactly the callbacks that were added
\* under name and not removed afterwards: a callback is invoked as often as
\* it has registrations left, and not at all after add_hook then remove_hook.
C1_ExactlyLiveCallbacks ==
  Called => \A f \in Fns :
              Invocations(lastCall.log, f) = LiveCount(hist, lastCall.hook, f)

\* a call after add_hook(name, fn), remove_hook(name, fn) that leaves fn out
\* while another callback of the same hook is invoked
C1_Witness ==
  /\ Called
  /\ \E i, j \in 1..Len(hist) :
       /\ i < j
       /\ hist[i].op = "add" /\ hist[j].op = "remove"
       /\ hist[i].hook = lastCall.hook /\ hist[j].hook = lastCall.hook
       /\ hist[i].fn = hist[j].fn
       /\ Invocations(lastCall.log, hist[i].fn) = 0
  /\ Len(lastCall.log) > 0

\* C2: call_hook passes the value to every callback and returns the input
\* value unless a callback returned something (then the latest such return
\* value); with no callback registered it returns the input unchanged.
C2_ReturnsInputUnlessOverridden ==
  Called =>
    LET log == lastCall.log
        over == {i \in 1..Len(log) : log[i].ret # Undefined}
    IN /\ \A i \in 1..Len(log) : log[i].arg = lastCall.value
       /\ over = {} => lastCall.result = lastCall.value
       /\ over # {} => \E i \in over : /\ lastCall.result = log[i].ret
                                        /\ \A j \in over : j <= i

\* a call on a hook whose only callback was removed again returns its input
C2_Witness ==
  /\ Called
  /\ lastCall.log = <<>>
  /\ \E i \in 1..Len(hist) : hist[i].op = "remove" /\ hist[i].hook = lastCall.hook
  /\ \E i \in 1..Len(hist) : hist[i].op = "add" /\ hist[i].hook = lastCall.hook
  /\ lastCall.result = lastCall.value

\* C3: every callback runs with this.hook equal to the hook name and
\* this.state equal to the value given to call_hook, also after an earlier
\* callback of the same hook has run.
C3_ThisCarriesStateAndHook ==
  Called => \A i \in 1..Len(lastCall.log) :
              /\ lastCall.log[i].this.hook = lastCall.hook
              /\ lastCall.log[i].this.state = lastCall.value

\* a callback that ran after one which returned a different value
C3_Witness ==
  /\ Called
  /\ \E i, j \in 1..Len(lastCall.log) :
       /\ i < j
       /\ lastCall.log[i].ret # Undefined
       /\ lastCall.log[i].ret # lastCall.value
       /\ lastCall.log[j].this.state = lastCall.value

\* C4: call_hook invokes every registration of the name once, in the order
\* of the add_hook calls, and nothing that was added under another name.
C4_InsertionOrderOnce ==
  Called =>
    LET fns == [i \in 1..Len(lastCall.log) |-> lastCall.log[i].fn] IN
    /\ IsSubsequence(fns, AddedOrder(hist, lastCall.hook))
    /\ \A f \in Fns : Invocations(lastCall.log, f) <= LiveCount(hist, lastCall.hook, f)
    /\ fns = registry[lastCall.hook]

\* two different callbacks invoked in the order they were added while the
\* other hook name holds a callback that is not invoked
C4_Witness ==
  /\ Called
  /\ Len(lastCall.log) >= 2
  /\ lastCall.log[1].fn # lastCall.log[2].fn
  /\ \E n \in HookNames : /\ n # lastCall.hook
                          /\ registry[n] # <<>>
                          /\ \A i \in 1..Len(lastCall.log) :
                               lastCall.log[i].fn # registry[n][1]

(***************************************************************************)
(* Properties of the property installer                                    *)
(***************************************************************************)
Installed == lastOp.op = "install"

\* the descriptor the element showed for the property before the operation
Existing == IF lastOp.before.own # Absent THEN lastOp.before.own
            ELSE lastOp.before.inherited

\* C5: applied to an element on which the property exists with an ordinary
\* (non-polyfill, configurable) descriptor, own or inherited, the installer
\* backs that descriptor up under '_original_' + property and overwrites the
\* property with the supplied descriptor.
C5_BacksUpThenOverwrites ==
  (/\ Installed
   /\ Existing # Absent
   /\ Existing.val = "plain" /\ Existing.by = "native" /\ Existing.configurable
   /\ lastOp.before.original = Absent)
  => /\ ~ lastOp.thrown
     /\ dom[lastOp.obj][OriginalKey(lastOp.property)] = Existing
     /\ dom[lastOp.obj][Key(lastOp.property)] = lastOp.descriptor

\* C8: the installer never throws: on an already polyfilled property it
\* leaves the backup alone, and on a missing, inherited or null/undefined
\* valued property it raises nothing and defines the supplied descriptor.
C8_SkipAndContinue ==
  Installed =>
    /\ IsMarked(Existing.val) =>
         dom[lastOp.obj][OriginalKey(lastOp.property)] = lastOp.before.original
    /\ (\/ Existing = Absent
        \/ lastOp.before.own = Absent
        \/ ReadThrows(Existing.val))
       => /\ ~ lastOp.thrown
          /\ dom[lastOp.obj][Key(lastOp.property)] = lastOp.descriptor

(***************************************************************************)
(* Properties of Wrapper.install / Wrapper.uninstall                       *)
(***************************************************************************)
\* C6: after install(els) followed by uninstall(els), and after hyperform()
\* followed by destroy(), every property of every object of the page has the
\* descriptor it had before the install.
C6_UninstallReversesInstall ==
  pair.phase \in {"uninstalled", "destroyed"} =>
    \A o \in PageObjects, q \in PageProps : dom[o][Key(q)] = pair.before[o][Key(q)]

(***************************************************************************)
(* Properties of hyperform()                                               *)
(***************************************************************************)
Given(n) == n \in call.options.given

\* C7: every recognized option the caller gave (a truthy classes included)
\* is a setting of every Wrapper the call created, with the caller's value,
\* and a collection gets one Wrapper per element, in order.
C7_OptionsReachSettings ==
  (call.done /\ ~ call.thrown) =>
    /\ Len(wrappers) = Len(call.target.nodes)
    /\ \A i \in 1..Len(wrappers) :
         /\ wrappers[i].form = call.target.nodes[i]
         /\ \A n \in call.options.given :
              (n = "classes" => call.options.classes # "null")
              => /\ n \in DOMAIN wrappers[i].settings
                 /\ wrappers[i].settings[n] = call.options[n]

\* the value strict resolves to
StrictOf(o) == IF "strict" \in o.given THEN o.strict ELSE FALSE

\* C9 (as claimed): an option that is given, classes included, keeps the
\* value the caller gave.
C9_GivenNeverReplaced ==
  call.done => \A n \in call.options.given : call.locals[n] = call.options[n]

\* C9 (amended): omitted options resolve from strict (revalidate to
\* 'onsubmit' or 'hybrid', valid_event, extend_fieldset and
\* novalidate_on_elements to its negation, strict to false, classes to an
\* empty object); a given strict, revalidate, valid_event, extend_fieldset or
\* novalidate_on_elements is kept, a given classes is kept unless it is
\* falsy, and then it becomes an empty object.  The settings of every Wrapper
\* created carry the resolved values.
C9_DefaultsFromStrict ==
  call.done =>
    LET o == call.options
        strict == StrictOf(o)
        expected ==
          [strict |-> strict,
           revalidate |-> IF Given("revalidate") THEN o.revalidate
                          ELSE IF strict THEN "onsubmit" ELSE "hybrid",
           valid_event |-> IF Given("valid_event") THEN o.valid_event ELSE ~ strict,
           extend_fieldset |-> IF Given("extend_fieldset") THEN o.extend_fieldset
                               ELSE ~ strict,
           novalidate_on_elements |-> IF Given("novalidate_on_elements")
                                        THEN o.novalidate_on_elements ELSE ~ strict,
           classes |-> IF Given("classes") /\ o.classes # "null" THEN o.classes
                       ELSE EmptyClasses]
    IN /\ call.locals = expected
       /\ \A i \in 1..Len(wrappers) :
            \A n \in DOMAIN wrappers[i].settings : wrappers[i].settings[n] = expected[n]

\* a call for a collection that gives valid_event: false and classes: null
\* and leaves strict and revalidate out
C9_Witness ==
  /\ call.done
  /\ call.target.collection
  /\ Len(wrappers) = 2
  /\ call.options.given = {"valid_event", "classes"}
  /\ ~ call.options.valid_event
  /\ call.options.classes = "null"
  /\ ~ wrappers[2].settings.valid_event
  /\ wrappers[2].settings.classes = EmptyClasses
  /\ wrappers[2].settings.revalidate = "hybrid"

(***************************************************************************)
(* Properties of the Wrapper                                               *)
(***************************************************************************)
ListenersOf(wid) == {l \in listeners : l.wid = wid}

\* C10: a wrapper that was constructed and not destroyed has a keyup and a
\* change listener on its form exactly when its mode is 'oninput' or
\* 'hybrid', a capturing blur listener exactly when it is 'onblur' or
\* 'hybrid', and no revalidation listener otherwise.
C10_ListenersFollowMode ==
  \A wid \in 1..Len(wrappers) :
    ~ wrappers[wid].destroyed =>
      LET mode == wrappers[wid].settings.revalidate
          form == wrappers[wid].form
      IN ListenersOf(wid) =
           (IF mode \in {"oninput", "hybrid"}
              THEN {Listener(form, "keyup", wid, FALSE),
                    Listener(form, "change", wid, FALSE)}
              ELSE {})
           \cup (IF mode \in {"onblur", "hybrid"}
                   THEN {Listener(form, "blur", wid, TRUE)}
                   ELSE {})

\* C11: a destroyed wrapper has none of its keyup, change or blur listeners
\* left on the form, whatever its mode, so no such event reaches its
\* revalidator; and destroy() leaves the form unregistered in instances.
C11_DestroyDetaches ==
  /\ [](\A wid \in 1..Len(wrappers) :
          wrappers[wid].destroyed =>
            /\ ListenersOf(wid) = {}
            /\ instances[wrappers[wid].form] # wid)
  /\ [][\A wid \in 1..Len(wrappers) :
          (~ wrappers[wid].destroyed /\ wrappers'[wid].destroyed)
          => instances'[wrappers[wid].form] = 0]_vars

\* a wrapper in hybrid mode that had its three listeners attached and was
\* destroyed, while another wrapper still listens on the same form
C11_Witness ==
  \E wid, other \in 1..Len(wrappers) :
    /\ wrappers[wid].destroyed /\ wrappers[wid].constructed
    /\ wrappers[wid].settings.revalidate = "hybrid"
    /\ ~ wrappers[other].destroyed
    /\ wrappers[other].form = wrappers[wid].form
    /\ ListenersOf(other) # {}

(***************************************************************************)
(* Properties of Wrapper.revalidate                                        *)
(***************************************************************************)
\* C12: in hybrid mode an event on a button, input, select or textarea is
\* reported at most once, and exactly when the target is valid or the event
\* is a blur and the value differs from the default, so an invalid target
\* is never reported on keyup or change; in the other modes every such
\* event is reported once; an event on another target is never reported.
C12_HybridReports ==
  reval.mode # "none" =>
    LET e == reval.event IN
    /\ reval.reports \in {0, 1}
    /\ e.target \notin Revalidated => reval.reports = 0
    /\ (e.target \in Revalidated /\ reval.mode # "hybrid") => reval.reports = 1
    /\ (e.target \in Revalidated /\ reval.mode = "hybrid") =>
         /\ reval.reports = 1 <=> (e.valid \/ (e.type = "blur" /\ e.changed))
         /\ (~ e.valid /\ e.type \in {"keyup", "change"}) => reval.reports = 0

\* a blur in hybrid mode on a valid input whose value is still the default
C12_Witness ==
  /\ reval.mode = "hybrid"
  /\ reval.event.target = "input"
  /\ reval.event.type = "blur"
  /\ reval.event.valid /\ ~ reval.event.changed
  /\ reval.reports = 1

(***************************************************************************)
(* Properties of catch_submit                                              *)
(***************************************************************************)
Submitted == submission.done

\* C13: when a click or keypress listener takes an event, the default of
\* the event is prevented, and form.submit() is called only after a
\* reportValidity(form) that returned true: never when it returns false.
C13_SubmitOnlyIfValid ==
  Submitted =>
    LET t == submission.tally IN
    /\ t.intercepted => t.prevented
    /\ t.submits <= t.reports
    /\ t.submits > 0 => submission.env.valid
    /\ ~ submission.env.valid => t.submits = 0

\* a click on a submit button of an invalid form: reported, not submitted
C13_Witness ==
  /\ Submitted
  /\ submission.event.type = "click"
  /\ submission.tally.intercepted
  /\ submission.tally.reports = 1
  /\ ~ submission.env.valid
  /\ submission.tally.submits = 0
  /\ submission.tally.native = 0

\* an Enter keypress in a text input of a form without novalidate, not yet
\* default-prevented, that reaches a catch_submit() listener
ImplicitSubmission ==
  /\ Submitted
  /\ submission.event.type = "keypress"
  /\ submission.event.keyCode = 13
  /\ ~ submission.event.prevented
  /\ submission.event.target # 0
  /\ TargetOf(submission.event, submission.env).nodeName = "INPUT"
  /\ TargetOf(submission.event, submission.env).type \in text_types
  /\ ~ submission.env.novalidate
  /\ submission.env.catchers > 0

\* the submit or image control that comes first in form.elements, 0 if none
FirstSubmit ==
  LET els == submission.env.elements
      subs == {i \in 1..Len(els) : els[i].type \in {"image", "submit"}}
  IN IF subs = {} THEN 0 ELSE CHOOSE i \in subs : \A j \in subs : i <= j

RECURSIVE Chain(_)
Chain(e) == IF e = None THEN <<>> ELSE <<e>> \o Chain(ParentOf(e))

Registered(n) == n # None /\ n \in DOMAIN instances /\ instances[n] # 0

\* C15: get_wrapper(element) is the wrapper of element.form if that form is
\* registered; else the wrapper of the nearest registered node among the
\* element and its ancestors; else the wrapper of window; else undefined.
\* The walk takes no more steps than the chain has nodes.
C15_LookupPriority ==
  got.element # None =>
    LET e == got.element
        chain == Chain(e)
        on == {i \in 1..Len(chain) : Registered(chain[i])}
        nearest == CHOOSE i \in on : \A j \in on : i <= j
        expected ==
          IF Registered(FormOf(e)) THEN instances[FormOf(e)]
          ELSE IF on # {} THEN instances[chain[nearest]]
          ELSE IF Registered("window") THEN instances["window"]
          ELSE 0
    IN /\ got.wrapped = expected
       /\ got.steps <= Len(chain)

\* the form of a control wins over its nearer, registered fieldset
C15_Witness ==
  /\ got.element = "input1"
  /\ Registered("fieldset1")
  /\ Registered("form1")
  /\ got.wrapped = instances["form1"]
  /\ got.wrapped # instances["fieldset1"]

\* C16: instances maps a form to a wrapper exactly when some wrapper
\* constructed for that form is not destroyed, and the wrapper that
\* get_wrapper returns for the form is not a destroyed one.
C16_RegistryTracksLiveWrappers ==
  \A form \in Nodes :
    /\ instances[form] # 0 <=>
         \E wid \in 1..Len(wrappers) :
           wrappers[wid].form = form /\ ~ wrappers[wid].destroyed
    /\ LET w == get_wrapper(instances, form).wrapped
       IN w # 0 => ~ wrappers[w].destroyed

\* C17: installing again keeps the backup: when an installer is applied to an
\* element and property that the previous application installed, it does not
\* throw, '_original_' + property is what it was and not a polyfill
\* descriptor, and the property holds the supplied polyfill descriptor.
C17_RepeatedInstallKeepsBackup ==
  [][(Installed /\ ~ lastOp.thrown /\ lastOp'.op = "install"
        /\ lastOp'.obj = lastOp.obj /\ lastOp'.property = lastOp.property)
     => /\ ~ lastOp'.thrown
        /\ dom'[lastOp.obj][OriginalKey(lastOp.property)]
             = dom[lastOp.obj][OriginalKey(lastOp.property)]
        /\ dom'[lastOp.obj][OriginalKey(lastOp.property)].by # "polyfill"
        /\ dom'[lastOp.obj][Key(lastOp.property)] = lastOp'.descriptor]_vars

====
